---- MODULE Spec2Model ----
(***************************************************************************)
(* Model of the NEON tag parser of tmi-rs (src/irc/simd/arm_neon.rs):      *)
(* the 16-byte chunked byte scanners find_equals / find_semi_or_space and  *)
(* the parse_tags loop built on them.                                      *)
(*                                                                         *)
(* A &str is a sequence of bytes (0..255), 1-indexed in TLA+; all indexes  *)
(* named after the source (pos, key_start, key_end, ...) are the source's  *)
(* 0-based byte offsets.  Option<T> is a sequence of length <= 1.          *)
(***************************************************************************)
EXTENDS Integers, Sequences, FiniteSets, TLC

\* ---------------------------------------------------------------- bounds
\* An input line is the concatenation of at most MaxTok tokens.
MaxTok == 4
\* Length of the filler token (a run of 'a'), just below one 16-byte chunk.
FillLen == 15
\* Largest cursor value a caller passes to parse_tags.
MaxPos0 == 1

\* ------------------------------------------------------ program constants
\* Lanes of a uint8x16_t, the chunk size of chunk16_test.
LANES == 16
\* b'=' , b';' , b' ' : the needles; '@' : the tag marker.
EQUALS == 61
SEMI == 59
SPACE == 32
AT == 64

\* ----------------------------------------------------------------- inputs
Fill == [i \in 1..FillLen |-> 97]
\* U+00E9, a two-byte UTF-8 scalar (lead byte, continuation byte).
EAcute == <<195, 169>>
\* "mod=", the one key of the input alphabet that TagKey knows.
ModEq == <<109, 111, 100, EQUALS>>

Tokens == {<<AT>>, <<EQUALS>>, <<SEMI>>, <<SPACE>>, EAcute, ModEq, Fill}

RECURSIVE LinesUpTo(_)
LinesUpTo(n) ==
  IF n = 0 THEN {<<>>}
  ELSE LET L == LinesUpTo(n - 1) IN L \cup {l \o t : l \in L, t \in Tokens}

Lines == LinesUpTo(MaxTok)

\* ----------------------------------------------------------------- Option
None == <<>>
Some(v) == <<v>>

Min(a, b) == IF a <= b THEN a ELSE b

\* ------------------------------------------------------------ &str slicing
\* str::is_char_boundary: 0 and len are boundaries, otherwise the byte at the
\* index must not be a UTF-8 continuation byte (0x80..0xBF).
is_char_boundary(s, i) ==
  \/ i = 0
  \/ i = Len(s)
  \/ i < Len(s) /\ ~(s[i + 1] \in 128..191)

\* &s[i..] : panics unless i <= len and i is a char boundary.
CanSlice(s, i) == i <= Len(s) /\ is_char_boundary(s, i)
SliceFrom(s, i) == SubSeq(s, i + 1, Len(s))

\* a test for a non-empty remainder in place of the test for '@'
starts_with_any(s, c) == Len(s) > 0

\* str::starts_with(char)
starts_with(s, c) == Len(s) > 0 /\ s[1] = c

\* ------------------------------------------------------------- NEON lanes
\* vld1q_u8(ptr.add(i)): 16 bytes starting at 0-based offset i.
vld1q_u8(bytes, i) == [k \in 1..LANES |-> bytes[i + k]]

\* mem::transmute([c; 16])
splat(c) == [k \in 1..LANES |-> c]

\* vceqq_u8: 0xFF in every lane where the bytes are equal.
vceqq_u8(a, b) == [k \in 1..LANES |-> IF a[k] = b[k] THEN 255 ELSE 0]

\* vreinterpretq_u16_u8: 8 little-endian 16-bit lanes.
vreinterpretq_u16_u8(v) == [j \in 1..(LANES \div 2) |-> v[2 * j - 1] + 256 * v[2 * j]]

\* vshrn_n_u16(v, n): shift every 16-bit lane right by n, keep the low 8 bits.
vshrn_n_u16(v, n) == [j \in 1..(LANES \div 2) |-> (v[j] \div (2 ^ n)) % 256]

\* Mask::eq. The u64 (vget_lane_u64 of the 8x8 vector) is kept as its 8
\* little-endian bytes: byte j holds bits 8(j-1) .. 8j-1 of the mask.
Mask_eq(a, b) == vshrn_n_u16(vreinterpretq_u16_u8(vceqq_u8(a, b)), 4)

\* Mask::has_match: self.0 != 0
has_match(mask) == \E j \in DOMAIN mask : mask[j] # 0

\* trailing zeros of a non-zero byte
tz8(b) == CHOOSE n \in 0..7 : b % (2 ^ (n + 1)) # 0 /\ b % (2 ^ n) = 0

\* u64::trailing_zeros (64 for a zero mask).
trailing_zeros(mask) ==
  IF ~has_match(mask) THEN 8 * Len(mask)
  ELSE LET j == CHOOSE j \in DOMAIN mask :
                  mask[j] # 0 /\ \A k \in 1..(j - 1) : mask[k] = 0
       IN 8 * (j - 1) + tz8(mask[j])

\* Mask::first_match_index, with a shift that is too large by one
first_match_index_shr3(mask) == trailing_zeros(mask) \div 8

\* Mask::first_match_index: trailing_zeros() >> 2
first_match_index(mask) == trailing_zeros(mask) \div 4

\* ------------------------------------------------------------ the scanners
\* Found::Semi(i) / Found::Space(i)
Found(kind, i) == [kind |-> kind, idx |-> i]

\* impl Add<usize> for Found
Found_add(f, rhs) == Found(f.kind, f.idx + rhs)

\* `Some(pos)` in place of `Some(pos + i)`: the chunk offset is lost
usize_add_no_offset(a, rhs) == a

\* pos + i in chunk16_test, for T = usize
usize_add(a, rhs) == a + rhs

\* find_equals::test, given the mask of the chunk
equals_match(mask) ==
  IF has_match(mask) THEN Some(first_match_index(mask)) ELSE None

\* find_equals::test
find_equals_test(data) == equals_match(Mask_eq(data, splat(EQUALS)))

\* the match of find_semi_or_space::test, preferring ';' whenever the chunk
\* holds one
semi_or_space_match_semi_first(semi_mask, space_mask) ==
  IF has_match(semi_mask) THEN Some(Found("Semi", first_match_index(semi_mask)))
  ELSE IF has_match(space_mask) THEN Some(Found("Space", first_match_index(space_mask)))
  ELSE None

\* find_semi_or_space::test, given the two masks of the chunk:
\* match (semi_mask.has_match(), space_mask.has_match())
semi_or_space_match(semi_mask, space_mask) ==
  CASE has_match(semi_mask) /\ has_match(space_mask) ->
         IF first_match_index(semi_mask) < first_match_index(space_mask)
         THEN Some(Found("Semi", first_match_index(semi_mask)))
         ELSE Some(Found("Space", first_match_index(space_mask)))
    [] has_match(semi_mask) /\ ~has_match(space_mask) ->
         Some(Found("Semi", first_match_index(semi_mask)))
    [] ~has_match(semi_mask) /\ has_match(space_mask) ->
         Some(Found("Space", first_match_index(space_mask)))
    [] OTHER -> None

\* find_semi_or_space::test
find_semi_or_space_test(data) ==
  semi_or_space_match(Mask_eq(data, splat(SEMI)), Mask_eq(data, splat(SPACE)))

\* The parameters of chunk16_test<T, F>, one instance per scanner: F is the
\* scanner's `test`, T: Add<usize> its result type.
scanner_test(F, data) ==
  IF F = "find_equals" THEN find_equals_test(data) ELSE find_semi_or_space_test(data)

scanner_add(F, r, i) ==
  IF F = "find_equals" THEN usize_add(r, i) ELSE Found_add(r, i)

\* The tail of s from offset i, copied into a zeroed 16-byte buffer.
tail_buf(s, i) == [k \in 1..LANES |-> IF k <= Len(s) - i THEN s[i + k] ELSE 0]

\* chunk16_test from offset i on: full 16-byte chunks, then one zero-padded
\* chunk for the tail. chunk16_found is `if let Some(pos) = test(data)` with
\* r = test(data).
RECURSIVE chunk16_loop(_, _, _)
RECURSIVE chunk16_found(_, _, _, _)
chunk16_found(s, F, i, r) ==
  IF r # None THEN Some(scanner_add(F, r[1], i))
  ELSE IF i + LANES <= Len(s) THEN chunk16_loop(s, F, i + LANES)
  ELSE None

chunk16_loop(s, F, i) ==
  IF i + LANES <= Len(s) THEN chunk16_found(s, F, i, scanner_test(F, vld1q_u8(s, i)))
  ELSE IF i < Len(s) THEN chunk16_found(s, F, i, scanner_test(F, tail_buf(s, i)))
  ELSE None

chunk16_test(s, F) == chunk16_loop(s, F, 0)

find_equals(s) == chunk16_test(s, "find_equals")

find_semi_or_space(s) == chunk16_test(s, "find_semi_or_space")

\* ------------------------------------------------- spans, tags, whitelists
\* Span { start, end }: the half-open byte range start..end of the source.
Span(start, end) == [start |-> start, end |-> end]

\* Span::get / &src[span]
Get(s, span) == SubSeq(s, span.start + 1, span.end)

\* TagKey: the closed enumeration of known keys, "Unknown" for every other key.
TagKey_from_bytes(b) ==
  CASE b = <<109, 111, 100>> -> "Mod"
    [] b = <<105, 100>> -> "Id"
    [] OTHER -> "Unknown"

\* RawTag { key, key_span, value }
RawTag(s, key, value) ==
  [key |-> TagKey_from_bytes(Get(s, key)), key_span |-> key, value |-> value]

\* The two canonical whitelists: accept-all and by-key-set.
AcceptAll == [kind |-> "all", keys |-> {}]
KeySet(K) == [kind |-> "keys", keys |-> K]
Whitelists == {AcceptAll} \cup {KeySet(K) : K \in SUBSET {"Mod"}}

\* whitelist_insert_all: pushes every pair.
whitelist_insert_all(s, tgs, key, value) == Append(tgs, RawTag(s, key, value))

\* Whitelist::maybe_insert: the by-key-set inserter pushes only the pairs whose
\* resolved key is in the set.
maybe_insert(w, s, tgs, key, value) ==
  IF w.kind = "all" THEN whitelist_insert_all(s, tgs, key, value)
  ELSE IF TagKey_from_bytes(Get(s, key)) \in w.keys THEN Append(tgs, RawTag(s, key, value))
  ELSE tgs

\* -------------------------------------------------- parse_tags: loop body
\* The result of one pass through the body of the while loop: the arm taken,
\* the key_start and tags it leaves, and the key_end / value_start it used.
Pass(arm, ks, tgs, key_end, value_start) ==
  [arm |-> arm, key_start |-> ks, tags |-> tgs,
   key_end |-> key_end, value_start |-> value_start]

\* match find_semi_or_space(&src[value_start..]) with f its result
MatchFound(s, w, ks, tgs, key_end, value_start, f) ==
  IF f = None
  THEN Pass("None", Len(s),
            maybe_insert(w, s, tgs, Span(ks, key_end), Span(value_start, Len(s))),
            key_end, value_start)
  ELSE Pass(f[1].kind, f[1].idx + value_start + 1,
            maybe_insert(w, s, tgs, Span(ks, key_end),
                         Span(value_start, f[1].idx + value_start)),
            key_end, value_start)

\* key_end += key_start; value_start = key_end + 1; the slice src[value_start..]
AfterEquals(s, w, ks, tgs, key_end) ==
  IF ~CanSlice(s, key_end + 1)
  THEN Pass("Panic", ks, tgs, key_end, key_end + 1)
  ELSE MatchFound(s, w, ks, tgs, key_end, key_end + 1,
                  find_semi_or_space(SliceFrom(s, key_end + 1)))

\* let Some(key_end) = find_equals(..) else break, with eq its result
LetElse(s, w, ks, tgs, eq) ==
  IF eq = None THEN Pass("NoEquals", ks, tgs, ks, ks)
  ELSE AfterEquals(s, w, ks, tgs, eq[1] + ks)

\* One pass through the body of `while !src[key_start..].is_empty()` for a
\* non-empty src[ks..].
Iteration(s, w, ks, tgs) == LetElse(s, w, ks, tgs, find_equals(SliceFrom(s, ks)))

\* parse_tags as a function of its arguments: the tags returned and the value
\* written back to *pos, or the panic of a slice expression, which returns no
\* tags and leaves *pos as the caller passed it.
Returned(tgs, p) == [tags |-> tgs, pos |-> p, panicked |-> FALSE]
Panicked(p) == [tags |-> <<>>, pos |-> p, panicked |-> TRUE]

RECURSIVE parse_tags_loop(_, _, _, _, _)
RECURSIVE parse_tags_next(_, _, _, _)
parse_tags_next(s, p, w, r) ==
  IF r.arm = "Panic" THEN Panicked(p)
  ELSE IF r.arm = "Semi" THEN parse_tags_loop(s, p, w, r.key_start, r.tags)
  ELSE Returned(r.tags, r.key_start)

parse_tags_loop(s, p, w, ks, tgs) ==
  IF ~CanSlice(s, ks) THEN Panicked(p)
  ELSE IF SliceFrom(s, ks) = <<>> THEN Returned(tgs, ks)
  ELSE parse_tags_next(s, p, w, Iteration(s, w, ks, tgs))

parse_tags(s, p, w) ==
  IF ~CanSlice(s, p) THEN Panicked(p)
  ELSE IF ~starts_with(SliceFrom(s, p), AT) THEN Returned(<<>>, p)
  ELSE parse_tags_loop(s, p, w, p + 1, <<>>)

\* ------------------------------------------------------------------ state
VARIABLES
  src,        \* the line
  pos,        \* the caller's cursor (*pos)
  pos_in,     \* the value of *pos when parse_tags was called
  wl,         \* the whitelist passed to parse_tags
  tags,       \* the RawTags being built / returned
  key_start,  \* the loop variable
  pc,         \* "start", "loop", "exit", "done", "panicked", "tested_eq", "tested_sos"
  scan,       \* the Option returned by the scanner under test
  iters,      \* passes through the body of the while loop of parse_tags so far
  msg,        \* the IrcMessageRef handed to Privmsg::from_irc (None: no message)
  view        \* the Option<Privmsg> that from_irc returned

vars == <<src, pos, pos_in, wl, tags, key_start, pc, scan, iters, msg, view>>

Init ==
  /\ src \in Lines
  /\ pos = 0
  /\ pos_in = 0
  /\ wl = AcceptAll
  /\ tags = <<>>
  /\ key_start = 0
  /\ pc = "start"
  /\ scan = None
  /\ iters = 0
  /\ msg = None
  /\ view = None

Cursors == 0..Min(MaxPos0, Len(src))

\* tests::equals: find_equals on the whole string.
TestEquals ==
  /\ pc = "start"
  /\ scan' = find_equals(src)
  /\ pc' = "tested_eq"
  /\ UNCHANGED <<src, pos, pos_in, wl, tags, key_start, iters, msg, view>>

\* tests::semi_or_space: find_semi_or_space on the whole string.
TestSemiOrSpace ==
  /\ pc = "start"
  /\ scan' = find_semi_or_space(src)
  /\ pc' = "tested_sos"
  /\ UNCHANGED <<src, pos, pos_in, wl, tags, key_start, iters, msg, view>>

\* parse_tags called at a cursor whose remainder does not start with '@'.
EarlyReturn ==
  \E p \in Cursors, w \in Whitelists :
    /\ pc = "start"
    /\ CanSlice(src, p)
    /\ ~starts_with(SliceFrom(src, p), AT)
    /\ pos' = p /\ pos_in' = p /\ wl' = w
    /\ tags' = <<>>
    /\ pc' = "done"
    /\ UNCHANGED <<src, key_start, scan, iters, msg, view>>

\* The pass r took arm `arm`: tags and key_start become what it left and
\* control goes to `next` (the loop head on continue, the write-back on break);
\* iters counts the pass.
Arm(r, arm, next) ==
  /\ r.arm = arm
  /\ tags' = r.tags
  /\ key_start' = r.key_start
  /\ iters' = iters + 1
  /\ pc' = next

\* Enter with key_start two bytes past the cursor
Enter_skip_two ==
  \E p \in Cursors, w \in Whitelists :
    /\ pc = "start"
    /\ CanSlice(src, p)
    /\ starts_with(SliceFrom(src, p), AT)
    /\ pos' = p /\ pos_in' = p /\ wl' = w
    /\ tags' = <<>>
    /\ key_start' = p + 2
    /\ pc' = "loop"
    /\ iters' = 0
    /\ UNCHANGED <<src, scan, msg, view>>

\* parse_tags called at a '@': allocate the tags, key_start = *pos + 1.
Enter ==
  \E p \in Cursors, w \in Whitelists :
    /\ pc = "start"
    /\ CanSlice(src, p)
    /\ starts_with(SliceFrom(src, p), AT)
    /\ pos' = p /\ pos_in' = p /\ wl' = w
    /\ tags' = <<>>
    /\ key_start' = p + 1
    /\ pc' = "loop"
    /\ iters' = 0
    /\ UNCHANGED <<src, scan, msg, view>>

\* The index that the next slice expression of parse_tags uses is not a
\* char boundary of src (or lies beyond it): the slice panics.
SliceFails(p) ==
  IF pc = "start" THEN ~CanSlice(src, p)
  ELSE IF pc = "loop"
       THEN IF ~CanSlice(src, key_start) THEN TRUE
            ELSE IF SliceFrom(src, key_start) = <<>> THEN FALSE
            ELSE Iteration(src, wl, key_start, tags).arm = "Panic"
       ELSE FALSE

SlicePanic ==
  \E p \in Cursors :
    /\ SliceFails(p)
    /\ pos' = (IF pc = "start" THEN p ELSE pos)
    /\ pos_in' = (IF pc = "start" THEN p ELSE pos_in)
    /\ pc' = "panicked"
    /\ UNCHANGED <<src, wl, tags, key_start, scan, iters, msg, view>>

AtBody == pc = "loop" /\ CanSlice(src, key_start) /\ SliceFrom(src, key_start) # <<>>

\* while condition false: src[key_start..] is empty.
WhileExit ==
  /\ pc = "loop"
  /\ CanSlice(src, key_start)
  /\ SliceFrom(src, key_start) = <<>>
  /\ pc' = "exit"
  /\ UNCHANGED <<src, pos, pos_in, wl, tags, key_start, scan, iters, msg, view>>

\* find_equals found nothing: break.
NoEquals ==
  /\ AtBody
  /\ Iteration(src, wl, key_start, tags).arm = "NoEquals"
  /\ pc' = "exit"
  /\ iters' = iters + 1
  /\ UNCHANGED <<src, pos, pos_in, wl, tags, key_start, scan, msg, view>>

\* TagSemi that continues without moving key_start past the pair it read
TagSemi_no_advance ==
  /\ AtBody
  /\ LET r == Iteration(src, wl, key_start, tags)
     IN /\ r.arm = "Semi"
        /\ tags' = r.tags
        /\ iters' = iters + 1
        /\ key_start' = key_start
        /\ pc' = "loop"
  /\ UNCHANGED <<src, pos, pos_in, wl, scan, msg, view>>

\* TagSemi that leaves the loop when the whitelist drops the pair
TagSemi_break_on_reject ==
  /\ AtBody
  /\ LET r == Iteration(src, wl, key_start, tags)
     IN /\ r.arm = "Semi"
        /\ tags' = r.tags
        /\ iters' = iters + 1
        /\ key_start' = r.key_start
        /\ pc' = (IF r.tags = tags THEN "exit" ELSE "loop")
  /\ UNCHANGED <<src, pos, pos_in, wl, scan, msg, view>>

\* Some(Found::Semi(value_end)): insert, advance to after the ';', continue.
TagSemi ==
  /\ AtBody
  /\ Arm(Iteration(src, wl, key_start, tags), "Semi", "loop")
  /\ UNCHANGED <<src, pos, pos_in, wl, scan, msg, view>>

\* TagSpace that leaves key_start on the ' ' (key_start = value_end)
TagSpace_on_space ==
  /\ AtBody
  /\ LET r == Iteration(src, wl, key_start, tags)
     IN /\ r.arm = "Space"
        /\ tags' = r.tags
        /\ iters' = iters + 1
        /\ key_start' = r.key_start - 1
        /\ pc' = "exit"
  /\ UNCHANGED <<src, pos, pos_in, wl, scan, msg, view>>

\* Some(Found::Space(value_end)): insert, advance to after the ' ', break.
TagSpace ==
  /\ AtBody
  /\ Arm(Iteration(src, wl, key_start, tags), "Space", "exit")
  /\ UNCHANGED <<src, pos, pos_in, wl, scan, msg, view>>

\* TagNone that advances like the other arms (key_start = value_end + 1)
TagNone_past_end ==
  /\ AtBody
  /\ LET r == Iteration(src, wl, key_start, tags)
     IN /\ r.arm = "None"
        /\ tags' = r.tags
        /\ iters' = iters + 1
        /\ key_start' = r.key_start + 1
        /\ pc' = "exit"
  /\ UNCHANGED <<src, pos, pos_in, wl, scan, msg, view>>

\* None: the value runs to the end of src; insert, key_start = src.len(), break.
TagNone ==
  /\ AtBody
  /\ Arm(Iteration(src, wl, key_start, tags), "None", "exit")
  /\ UNCHANGED <<src, pos, pos_in, wl, scan, msg, view>>

\* *pos = key_start; return tags.
WriteBack ==
  /\ pc = "exit"
  /\ pos' = key_start
  /\ pc' = "done"
  /\ UNCHANGED <<src, pos_in, wl, tags, key_start, scan, iters, msg, view>>

Next ==
  \/ TestEquals
  \/ TestSemiOrSpace
  \/ EarlyReturn
  \/ Enter
  \/ SlicePanic
  \/ WhileExit
  \/ NoEquals
  \/ TagSemi
  \/ TagSpace
  \/ TagNone
  \/ WriteBack

Spec == Init /\ [][Next]_vars

\* ===================================================== claims: the scanners
MinOf(S) == CHOOSE x \in S : \A y \in S : x <= y

\* The byte at cursor p of s is '@'.
AtCursor(s, p) == p < Len(s) /\ s[p + 1] = AT

\* 0-based offsets of the bytes of s that are in `needles`.
Hits(s, needles) == {i \in 0..(Len(s) - 1) : s[i + 1] \in needles}

\* The plain left-to-right byte loop: the first offset holding a needle.
ScalarFirst(s, needles) ==
  IF Hits(s, needles) = {} THEN None ELSE Some(MinOf(Hits(s, needles)))

ScalarSemiOrSpace(s) ==
  LET r == ScalarFirst(s, {SEMI, SPACE})
  IN IF r = None THEN None
     ELSE Some(Found(IF s[r[1] + 1] = SEMI THEN "Semi" ELSE "Space", r[1]))

\* C1: find_equals returns Some(i) for the smallest i with s[i] = '=' and None
\* exactly when s has no '=', as the scalar byte loop does, for the string
\* under test and for every slice src[key_start..] the parser scans.
C1_FindEqualsIsLeftmost ==
  /\ pc = "tested_eq" => scan = ScalarFirst(src, {EQUALS})
  /\ AtBody => find_equals(SliceFrom(src, key_start))
                 = ScalarFirst(SliceFrom(src, key_start), {EQUALS})

\* The '=' was found in the zero-padded tail chunk of a string longer than 16.
C1_Witness ==
  /\ pc = "tested_eq"
  /\ Len(src) > LANES
  /\ Len(src) % LANES # 0
  /\ scan # None
  /\ scan[1] >= LANES * (Len(src) \div LANES)

\* C2: find_semi_or_space returns the leftmost position holding ';' or ' ',
\* tagged Semi or Space after the byte found there, and None exactly when s
\* holds neither.
C2_SemiOrSpaceIsLeftmost ==
  pc = "tested_sos" => scan = ScalarSemiOrSpace(src)

\* A ';' and a ' ' in different 16-byte chunks, the ' ' being the leftmost.
C2_Witness ==
  /\ pc = "tested_sos"
  /\ scan # None
  /\ scan[1].kind = "Space"
  /\ \E i \in Hits(src, {SEMI}) : i \div LANES # scan[1].idx \div LANES

\* ================================================== claims: well-formed lines
\* The tag section of the line at cursor p: from just after the '@' to the
\* first space after it, or to the end of the line.
SectionStart(p) == p + 1

SectionEnd(s, p) ==
  LET sp == {i \in Hits(s, {SPACE}) : i > p}
  IN IF sp = {} THEN Len(s) ELSE MinOf(sp)

\* The spans of the ';'-separated pieces of s[a..e).
RECURSIVE Pieces(_, _, _)
Pieces(s, a, e) ==
  LET semis == {i \in Hits(s, {SEMI}) : a <= i /\ i < e}
  IN IF semis = {} THEN <<Span(a, e)>>
     ELSE <<Span(a, MinOf(semis))>> \o Pieces(s, MinOf(semis) + 1, e)

HasEquals(s, piece) == \E i \in Hits(s, {EQUALS}) : piece.start <= i /\ i < piece.end

FirstEquals(s, piece) ==
  MinOf({i \in Hits(s, {EQUALS}) : piece.start <= i /\ i < piece.end})

\* '@' at the cursor, then k1=v1;k2=v2;...;kn=vn up to the first space or EOL.
WellFormedAt(s, p) ==
  /\ AtCursor(s, p)
  /\ LET P == Pieces(s, SectionStart(p), SectionEnd(s, p))
     IN \A k \in DOMAIN P : HasEquals(s, P[k])

\* The pairs of a well-formed section, read off the grammar.
RefTags(s, p) ==
  LET P == Pieces(s, SectionStart(p), SectionEnd(s, p))
  IN [k \in DOMAIN P |->
        [key |-> Span(P[k].start, FirstEquals(s, P[k])),
         value |-> Span(FirstEquals(s, P[k]) + 1, P[k].end)]]

\* C3: on a well-formed line the accept-all run returns exactly the n pairs of
\* the section, the j-th tag spanning kj and vj (empty keys, empty values and
\* duplicate keys included).
C3_WellFormedTags ==
  (pc = "done" /\ wl = AcceptAll /\ WellFormedAt(src, pos_in)) =>
    LET R == RefTags(src, pos_in)
    IN /\ Len(tags) = Len(R)
       /\ \A j \in DOMAIN R :
            /\ tags[j].key_span = R[j].key
            /\ tags[j].value = R[j].value
            /\ tags[j].key = TagKey_from_bytes(Get(src, R[j].key))

\* Two pairs with the same key, the first with an empty value.
C3_Witness ==
  /\ pc = "done" /\ wl = AcceptAll /\ WellFormedAt(src, pos_in)
  /\ Len(tags) = 2
  /\ Get(src, tags[1].key_span) = Get(src, tags[2].key_span)
  /\ tags[1].value.start = tags[1].value.end

\* C4: the by-key-set run returns the accept-all tags whose key is in the set,
\* in the same order with the same spans, and the same cursor.
C4_WhitelistIsFilter ==
  pc = "done" =>
    LET all == parse_tags(src, pos_in, AcceptAll)
        InSet(t) == wl.kind = "all" \/ t.key \in wl.keys
    IN /\ ~all.panicked
       /\ tags = SelectSeq(all.tags, InSet)
       /\ pos = all.pos

\* {Mod} kept one of two pairs.
C4_Witness ==
  /\ pc = "done"
  /\ wl = KeySet({"Mod"})
  /\ Len(tags) = 1
  /\ Len(parse_tags(src, pos_in, AcceptAll).tags) = 2

\* C5: without a '@' at the cursor parse_tags returns no tags and leaves pos
\* alone, and never enters the loop.
C5_NoAtNoTags ==
  (pc \in {"loop", "exit", "done"} /\ ~AtCursor(src, pos_in)) =>
    /\ pc = "done"
    /\ tags = <<>>
    /\ pos = pos_in

\* A line with '=' and ';' later on, not starting with '@'.
C5_Witness ==
  /\ pc = "done"
  /\ ~AtCursor(src, pos_in)
  /\ Hits(SliceFrom(src, pos_in), {EQUALS}) # {}
  /\ Hits(SliceFrom(src, pos_in), {SEMI}) # {}

\* C6: on a well-formed line the cursor ends just after the space that ends
\* the tag section, or at len(src) when no space follows the tags.
C6_CursorAfterSection ==
  (pc = "done" /\ WellFormedAt(src, pos_in)) =>
    pos = Min(SectionEnd(src, pos_in) + 1, Len(src))

\* The section was ended by a space with more of the line after it.
C6_Witness ==
  /\ pc = "done" /\ WellFormedAt(src, pos_in)
  /\ SectionEnd(src, pos_in) < Len(src)
  /\ pos = SectionEnd(src, pos_in) + 1
  /\ pos < Len(src)

\* ======================================================= claims: every line
SpanInBounds(s, sp) == 0 <= sp.start /\ sp.start <= sp.end /\ sp.end <= Len(s)

\* C7: every span inserted lies inside src with value.start = key.end + 1, the
\* cursor written back is <= len(src), and neither src[key_start..] nor
\* src[value_start..] starts beyond len(src).
C7_SpansInBounds ==
  /\ \A j \in DOMAIN tags :
       /\ SpanInBounds(src, tags[j].key_span)
       /\ SpanInBounds(src, tags[j].value)
       /\ tags[j].value.start = tags[j].key_span.end + 1
  /\ pos <= Len(src)
  /\ pc \in {"loop", "exit"} => key_start <= Len(src)
  /\ AtBody =>
       LET r == Iteration(src, wl, key_start, tags)
       IN r.arm # "NoEquals" => r.value_start <= Len(src)
  /\ pc = "panicked" => key_start = 0

\* A run from a cursor past the start of the line whose last value is the
\* empty slice at len(src).
C7_Witness ==
  /\ pc = "done"
  /\ pos_in > 0
  /\ Len(tags) >= 1
  /\ tags[Len(tags)].value = Span(Len(src), Len(src))
  /\ pos = Len(src)

HasMultiByte(s) == \E i \in DOMAIN s : s[i] >= 128

\* C8: every index at which parse_tags slices src or ends a span is a char
\* boundary; the only slice that can panic is the one at the caller's cursor;
\* a scanner never reports an offset inside a multi-byte character or in the
\* zero padding.
C8_CharBoundaries ==
  /\ \A j \in DOMAIN tags :
       /\ is_char_boundary(src, tags[j].key_span.start)
       /\ is_char_boundary(src, tags[j].key_span.end)
       /\ is_char_boundary(src, tags[j].value.start)
       /\ is_char_boundary(src, tags[j].value.end)
  /\ pc \in {"loop", "exit"} => is_char_boundary(src, key_start)
  /\ pc = "done" => is_char_boundary(src, pos)
  /\ AtBody =>
       LET r == Iteration(src, wl, key_start, tags)
       IN /\ r.arm # "Panic"
          /\ is_char_boundary(src, r.key_end)
          /\ is_char_boundary(src, r.value_start)
  /\ pc = "panicked" => key_start = 0 /\ ~is_char_boundary(src, pos_in)
  /\ (pc \in {"tested_eq", "tested_sos"} /\ scan # None) =>
       LET i == IF pc = "tested_eq" THEN scan[1] ELSE scan[1].idx
       IN i < Len(src) /\ src[i + 1] < 128 /\ is_char_boundary(src, i)

\* A key and a value that both hold a two-byte character.
C8_Witness ==
  /\ pc = "done"
  /\ Len(tags) = 1
  /\ HasMultiByte(Get(src, tags[1].key_span))
  /\ HasMultiByte(Get(src, tags[1].value))

\* ================================================ claims the code contradicts
\* C9: the tag list ends at the first space: with the first space of the line
\* at p, no key or value span extends to or past p and the cursor written back
\* is <= p + 1.
C9_TagsEndAtFirstSpace ==
  (pc = "done" /\ AtCursor(src, pos_in)
               /\ SectionEnd(src, pos_in) < Len(src)) =>
    LET p == SectionEnd(src, pos_in)
    IN /\ \A j \in DOMAIN tags : tags[j].key_span.end <= p /\ tags[j].value.end <= p
       /\ pos <= p + 1

\* The first piece of the tag section that has no '=' before its ';'.
Malformed(s, p) ==
  LET P == Pieces(s, SectionStart(p), SectionEnd(s, p))
  IN {k \in DOMAIN P : k < Len(P) /\ ~HasEquals(s, P[k])}

\* C10: a tag with no '=' before the next ';' ends the parse: no tag has a ';'
\* in its key, and the cursor written back is the start of that tag.
C10_MissingEqualsStops ==
  (pc = "done" /\ AtCursor(src, pos_in)) =>
    /\ \A j \in DOMAIN tags : Hits(Get(src, tags[j].key_span), {SEMI}) = {}
    /\ Malformed(src, pos_in) # {} =>
         pos = Pieces(src, SectionStart(pos_in), SectionEnd(src, pos_in))
                 [MinOf(Malformed(src, pos_in))].start


\* ======================================================= Privmsg::from_irc
\* The typed view of a PRIVMSG (src/msg/privmsg.rs).  An IrcMessageRef is a
\* record [command, text, channel, prefix, tags]: command is the Command
\* variant, text and channel are Options of byte strings, prefix is an Option
\* of [nick, host], and tags maps every Tag that from_irc reads to the Option
\* that IrcMessageRef::tag returns for it.

\* At most MaxGroups of the five field groups of a message differ from the
\* plain complete PRIVMSG.
MaxGroups == 2

DIGIT0 == 48
DIGIT9 == 57
PLUS == 43
MINUS == 45
SLASH == 47
COMMA == 44
SOH == 1

Str1 == <<49>>                                       \* "1"
StrX == <<120>>                                      \* "x"
StrPlus12 == <<PLUS, 49, 50>>                        \* "+12"
StrU64Max == <<49, 56, 52, 52, 54, 55, 52, 52, 48, 55, 51, 55, 48, 57, 53, 53, 49, 54, 49, 53>>
                                                     \* "18446744073709551615"
StrU64Over == <<49, 56, 52, 52, 54, 55, 52, 52, 48, 55, 51, 55, 48, 57, 53, 53, 49, 54, 49, 54>>
                                                     \* "18446744073709551616"
StrColor == <<35, 70>>                               \* "#F"
StrChannel == <<35, 99>>                             \* "#c"
StrNick == <<97>>                                    \* "a"
StrHost == <<97, 46, 116, 118>>                      \* "a.tv"
StrBadge == <<97, SLASH, 49>>                        \* "a/1"
StrBadgeInfo == <<97, SLASH, 50>>                    \* "a/2"
Waves == <<119, 97, 118, 101, 115>>                  \* "waves"
ActionPrefix == <<SOH, 65, 67, 84, 73, 79, 78, SPACE>>   \* "\x01ACTION "
ActionWaves == ActionPrefix \o Waves \o <<SOH>>      \* "\x01ACTION waves\x01"

RequiredTags == {"RoomId", "Id", "UserId", "DisplayName"}
ReplyTags == {"ReplyParentMsgId", "ReplyParentUserId", "ReplyParentUserLogin",
              "ReplyParentDisplayName", "ReplyParentMsgBody"}

\* The values each field group can take, and the value it has in the plain
\* complete PRIVMSG.
GroupNames == {"structure", "required", "badges", "optional", "reply"}

GroupValues(g) ==
  IF g = "structure"
  THEN [command : {"Privmsg", "Notice"},
        text : {None, Some(Waves), Some(ActionWaves)},
        channel : {None, Some(StrChannel)},
        prefix : {None, Some([nick |-> None, host |-> StrHost]),
                  Some([nick |-> Some(StrNick), host |-> StrHost])}]
  ELSE IF g = "required"
  THEN {f @@ [t \in {"TmiSentTs"} |-> ts] :
          f \in [RequiredTags -> {None, Some(Str1)}],
          ts \in {None, Some(Str1), Some(StrX)}}
  ELSE IF g = "badges"
  THEN {[t \in {"Badges", "BadgeInfo"} |-> IF t = "Badges" THEN b ELSE i] :
          b \in {None, Some(<<>>), Some(StrBadge)},
          i \in {None, Some(<<>>), Some(StrBadgeInfo)}}
  ELSE IF g = "optional"
  THEN {[t \in {"Bits", "Color", "Emotes"} |->
           IF t = "Bits" THEN b ELSE IF t = "Color" THEN c ELSE e] :
          b \in {None, Some(<<>>), Some(StrX), Some(Str1), Some(StrPlus12),
                 Some(StrU64Max), Some(StrU64Over)},
          c \in {None, Some(<<>>), Some(StrColor)},
          e \in {None, Some(Str1)}}
  ELSE [ReplyTags -> {None, Some(Str1)}]

GroupPlain(g) ==
  IF g = "structure"
  THEN [command |-> "Privmsg", text |-> Some(Waves), channel |-> Some(StrChannel),
        prefix |-> Some([nick |-> Some(StrNick), host |-> StrHost])]
  ELSE IF g = "required"
  THEN [t \in RequiredTags \cup {"TmiSentTs"} |-> Some(Str1)]
  ELSE IF g = "badges"
  THEN [t \in {"Badges", "BadgeInfo"} |-> Some(<<>>)]
  ELSE IF g = "optional"
  THEN [t \in {"Bits", "Color", "Emotes"} |-> None]
  ELSE [t \in ReplyTags |-> None]

GroupChoice(g, V) == IF g \in V THEN GroupValues(g) ELSE {GroupPlain(g)}

IrcMessage(st, rq, bd, op, rp) ==
  [command |-> st.command, text |-> st.text, channel |-> st.channel,
   prefix |-> st.prefix, tags |-> rq @@ bd @@ op @@ rp]

\* The sets of groups in which a message may differ from the plain one.
GroupSets == {W \in SUBSET GroupNames : Cardinality(W) <= MaxGroups}

\* ---- IrcMessageRef accessors
command(m) == m.command
text(m) == m.text
channel(m) == m.channel
prefix(m) == m.prefix
tag(m, t) == m.tags[t]

\* ---- helpers of the msg module
is_digit(b) == b >= DIGIT0 /\ b <= DIGIT9

\* The decimal digits of u64::MAX and of i64::MAX, most significant first.
U64_MAX == <<1, 8, 4, 4, 6, 7, 4, 4, 0, 7, 3, 7, 0, 9, 5, 5, 1, 6, 1, 5>>
I64_MAX == <<9, 2, 2, 3, 3, 7, 2, 0, 3, 6, 8, 5, 4, 7, 7, 5, 8, 0, 7>>
I64_MIN_ABS == <<9, 2, 2, 3, 3, 7, 2, 0, 3, 6, 8, 5, 4, 7, 7, 5, 8, 0, 8>>

all_digits(d) == d # <<>> /\ \A i \in DOMAIN d : is_digit(d[i])

\* The number that the decimal digits d spell, as its digits without leading
\* zeros (a 64-bit value does not fit the integers of the checker).
RECURSIVE strip_zeros(_)
strip_zeros(d) ==
  IF Len(d) > 1 /\ Head(d) = 0 THEN strip_zeros(Tail(d)) ELSE d

digits_value(d) == strip_zeros([i \in DOMAIN d |-> d[i] - DIGIT0])

\* a <= b for two numbers given by their digits without leading zeros.
RECURSIVE digits_le(_, _)
digits_le(a, b) ==
  IF Len(a) # Len(b) THEN Len(a) < Len(b)
  ELSE IF a = <<>> THEN TRUE
  ELSE IF Head(a) # Head(b) THEN Head(a) < Head(b)
  ELSE digits_le(Tail(a), Tail(b))

\* The digits after an optional sign byte.
unsigned_part(s, signs) ==
  IF s # <<>> /\ Head(s) \in signs THEN Tail(s) ELSE s

\* str::parse::<u64>: an optional '+', then one or more decimal digits that
\* spell a value of at most u64::MAX; anything else is an Err.
parse_u64(s) ==
  IF ~all_digits(unsigned_part(s, {PLUS})) THEN None
  ELSE IF ~digits_le(digits_value(unsigned_part(s, {PLUS})), U64_MAX) THEN None
  ELSE Some(digits_value(unsigned_part(s, {PLUS})))

\* parse_timestamp: the value as signed decimal milliseconds since the epoch,
\* an i64: [negative, digits].
parse_timestamp(s) ==
  IF ~all_digits(unsigned_part(s, {PLUS, MINUS})) THEN None
  ELSE IF s[1] = MINUS
  THEN (IF digits_le(digits_value(Tail(s)), I64_MIN_ABS)
        THEN Some([negative |-> digits_value(Tail(s)) # <<0>>,
                   digits |-> digits_value(Tail(s))])
        ELSE None)
  ELSE (IF digits_le(digits_value(unsigned_part(s, {PLUS})), I64_MAX)
        THEN Some([negative |-> FALSE,
                   digits |-> digits_value(unsigned_part(s, {PLUS}))])
        ELSE None)

is_not_empty(s) == s # <<>>

has_prefix(s, p) == Len(s) >= Len(p) /\ SubSeq(s, 1, Len(p)) = p

\* parse_message_text: "\x01ACTION <body>\x01" is an action with text <body>.
parse_message_text(s) ==
  IF has_prefix(s, ActionPrefix) /\ Len(s) > Len(ActionPrefix) /\ s[Len(s)] = SOH
  THEN [text |-> SubSeq(s, Len(ActionPrefix) + 1, Len(s) - 1), is_action |-> TRUE]
  ELSE [text |-> s, is_action |-> FALSE]

\* The 1-based index of the first byte b of s, 0 when there is none.
find_byte(s, b) ==
  IF \E i \in DOMAIN s : s[i] = b THEN MinOf({i \in DOMAIN s : s[i] = b}) ELSE 0

RECURSIVE split(_, _)
split(s, sep) ==
  IF find_byte(s, sep) = 0 THEN <<s>>
  ELSE <<SubSeq(s, 1, find_byte(s, sep) - 1)>>
         \o split(SubSeq(s, find_byte(s, sep) + 1, Len(s)), sep)

\* str::split_once, as an Option of [name, version].
split_once(s, sep) ==
  IF find_byte(s, sep) = 0 THEN None
  ELSE Some([name |-> SubSeq(s, 1, find_byte(s, sep) - 1),
             version |-> SubSeq(s, find_byte(s, sep) + 1, Len(s))])

RECURSIVE flatten(_)
flatten(opts) == IF opts = <<>> THEN <<>> ELSE Head(opts) \o flatten(Tail(opts))

pairs(s) ==
  flatten([k \in DOMAIN split(s, COMMA) |-> split_once(split(s, COMMA)[k], SLASH)])

\* The version that badge-info carries for the badge `name`, else `version`.
badge_extra(info, name, version) ==
  IF \E k \in DOMAIN info : info[k].name = name
  THEN info[MinOf({k \in DOMAIN info : info[k].name = name})].version
  ELSE version

\* parse_badges: the name/version pairs of `badges`, each with the counter
\* that `badge-info` carries for it.
parse_badges(badges, badge_info) ==
  [k \in DOMAIN pairs(badges) |->
     [name |-> pairs(badges)[k].name, version |-> pairs(badges)[k].version,
      extra |-> badge_extra(pairs(badge_info), pairs(badges)[k].name,
                            pairs(badges)[k].version)]]

\* ---- the fields of from_irc
\* reply_to that is Some as soon as reply-parent-msg-id is present
reply_to_field_msg_id_only(m) ==
  IF tag(m, "ReplyParentMsgId") = None THEN None
  ELSE Some([message_id |-> tag(m, "ReplyParentMsgId")[1],
             sender |-> [id |-> tag(m, "ReplyParentUserId"),
                         login |-> tag(m, "ReplyParentUserLogin"),
                         name |-> tag(m, "ReplyParentDisplayName")],
             text |-> tag(m, "ReplyParentMsgBody")])

\* let reply_to = message.tag(ReplyParentMsgId).and_then(|message_id| ...):
\* a `?` inside the closure makes the closure, hence reply_to, None.
reply_to_field(m) ==
  IF tag(m, "ReplyParentMsgId") = None THEN None
  ELSE IF tag(m, "ReplyParentUserId") = None THEN None
  ELSE IF tag(m, "ReplyParentUserLogin") = None THEN None
  ELSE IF tag(m, "ReplyParentDisplayName") = None THEN None
  ELSE IF tag(m, "ReplyParentMsgBody") = None THEN None
  ELSE Some([message_id |-> tag(m, "ReplyParentMsgId")[1],
             sender |-> [id |-> tag(m, "ReplyParentUserId")[1],
                         login |-> tag(m, "ReplyParentUserLogin")[1],
                         name |-> tag(m, "ReplyParentDisplayName")[1]],
             text |-> tag(m, "ReplyParentMsgBody")[1]])

\* message.prefix().and_then(|prefix| prefix.nick)
login_field(m) == IF prefix(m) = None THEN None ELSE prefix(m)[1].nick

\* message.tag(Tag::Color).filter(is_not_empty)
color_field(m) ==
  IF tag(m, "Color") # None /\ is_not_empty(tag(m, "Color")[1])
  THEN tag(m, "Color") ELSE None

\* message.tag(Tag::Bits).and_then(|bits| bits.parse().ok())
bits_field(m) ==
  IF tag(m, "Bits") = None THEN None ELSE parse_u64(tag(m, "Bits")[1])

\* message.tag(Tag::Emotes).unwrap_or_default()
emotes_field(m) == IF tag(m, "Emotes") = None THEN <<>> ELSE tag(m, "Emotes")[1]

\* timestamp that falls back to the epoch when tmi-sent-ts does not parse
timestamp_field_or_epoch(m) ==
  IF tag(m, "TmiSentTs") = None THEN None
  ELSE IF parse_timestamp(tag(m, "TmiSentTs")[1]) = None
  THEN Some([negative |-> FALSE, digits |-> <<0>>])
  ELSE parse_timestamp(tag(m, "TmiSentTs")[1])

\* message.tag(Tag::TmiSentTs).and_then(parse_timestamp)
timestamp_field(m) ==
  IF tag(m, "TmiSentTs") = None THEN None
  ELSE parse_timestamp(tag(m, "TmiSentTs")[1])

\* Some(Privmsg { .. }) once every `?` of the struct expression has passed.
Privmsg(m) ==
  [channel |-> channel(m)[1],
   channel_id |-> tag(m, "RoomId")[1],
   message_id |-> tag(m, "Id")[1],
   sender |-> [id |-> tag(m, "UserId")[1],
               login |-> login_field(m)[1],
               name |-> tag(m, "DisplayName")[1]],
   reply_to |-> reply_to_field(m),
   text |-> parse_message_text(text(m)[1]).text,
   is_action |-> parse_message_text(text(m)[1]).is_action,
   badges |-> parse_badges(tag(m, "Badges")[1], tag(m, "BadgeInfo")[1]),
   color |-> color_field(m),
   bits |-> bits_field(m),
   emotes |-> emotes_field(m),
   timestamp |-> timestamp_field(m)[1]]

\* Privmsg::from_irc: None at the command test and at every `?`, in the order
\* the code evaluates them.
from_irc(m) ==
  IF command(m) # "Privmsg" THEN None
  ELSE IF text(m) = None THEN None
  ELSE IF channel(m) = None THEN None
  ELSE IF tag(m, "RoomId") = None THEN None
  ELSE IF tag(m, "Id") = None THEN None
  ELSE IF tag(m, "UserId") = None THEN None
  ELSE IF login_field(m) = None THEN None
  ELSE IF tag(m, "DisplayName") = None THEN None
  ELSE IF tag(m, "Badges") = None THEN None
  ELSE IF tag(m, "BadgeInfo") = None THEN None
  ELSE IF timestamp_field(m) = None THEN None
  ELSE Some(Privmsg(m))

\* ---- the second state machine: one message, projected once
InitPrivmsg ==
  /\ \E V \in GroupSets :
       \E st \in GroupChoice("structure", V), rq \in GroupChoice("required", V),
          bd \in GroupChoice("badges", V), op \in GroupChoice("optional", V),
          rp \in GroupChoice("reply", V) :
         msg = IrcMessage(st, rq, bd, op, rp)
  /\ view = None
  /\ pc = "message"
  /\ src = <<>>
  /\ pos = 0
  /\ pos_in = 0
  /\ wl = AcceptAll
  /\ tags = <<>>
  /\ key_start = 0
  /\ scan = None
  /\ iters = 0

\* A caller hands the message to Privmsg::from_irc and keeps the result.
FromIrc ==
  /\ pc = "message"
  /\ view' = from_irc(msg)
  /\ pc' = "projected"
  /\ UNCHANGED <<src, pos, pos_in, wl, tags, key_start, scan, iters, msg>>

NextPrivmsg == FromIrc

SpecPrivmsg == InitPrivmsg /\ [][NextPrivmsg]_vars


\* ================================================= claims: Privmsg::from_irc
\* The message lacks something that C11 lists: it is not a PRIVMSG, or has no
\* trailing text, channel or prefix nick, or one of room-id, id, user-id,
\* display-name, tmi-sent-ts is absent, or tmi-sent-ts is not a timestamp.
ListedMissing(m) ==
  \/ m.command # "Privmsg"
  \/ m.text = None
  \/ m.channel = None
  \/ m.prefix = None
  \/ m.prefix # None /\ m.prefix[1].nick = None
  \/ \E t \in RequiredTags \cup {"TmiSentTs"} : m.tags[t] = None
  \/ m.tags["TmiSentTs"] # None /\ parse_timestamp(m.tags["TmiSentTs"][1]) = None

\* Every required field of the view v holds the value the message m carries.
FilledFrom(v, m) ==
  /\ v.channel = m.channel[1]
  /\ v.channel_id = m.tags["RoomId"][1]
  /\ v.message_id = m.tags["Id"][1]
  /\ v.sender.id = m.tags["UserId"][1]
  /\ v.sender.login = m.prefix[1].nick[1]
  /\ v.sender.name = m.tags["DisplayName"][1]
  /\ Some(v.timestamp) = parse_timestamp(m.tags["TmiSentTs"][1])

\* C11: from_irc returns None whenever the command is not Privmsg, or the
\* trailing text, the channel, the prefix nick or one of the tags room-id, id,
\* user-id, display-name, tmi-sent-ts is absent, or tmi-sent-ts does not parse
\* as a timestamp; a view that is returned has every required field filled
\* from the message.
C11_NoneWhenRequiredMissing ==
  pc = "projected" =>
    /\ ListedMissing(msg) => view = None
    /\ view # None => FilledFrom(view[1], msg)

\* A PRIVMSG that has everything except a tmi-sent-ts that parses was refused.
C11_Witness ==
  /\ pc = "projected"
  /\ view = None
  /\ msg.command = "Privmsg"
  /\ msg.text # None /\ msg.channel # None
  /\ msg.prefix # None /\ msg.prefix[1].nick # None
  /\ \A t \in RequiredTags \cup {"Badges", "BadgeInfo"} : msg.tags[t] # None
  /\ msg.tags["TmiSentTs"] = Some(StrX)


\* A PRIVMSG with a nick prefix, a channel, trailing text and only the tags
\* id, room-id, tmi-sent-ts, user-id and display-name, as "@id=x;room-id=1;
\* tmi-sent-ts=1;user-id=2;display-name=A :a!a@a.tmi.twitch.tv PRIVMSG #c :..".
OnlyPlainTags(m) ==
  /\ m.command = "Privmsg"
  /\ m.prefix # None /\ m.prefix[1].nick # None
  /\ m.channel # None
  /\ m.text # None
  /\ \A t \in RequiredTags : m.tags[t] # None
  /\ m.tags["TmiSentTs"] = Some(Str1)
  /\ \A t \in {"Badges", "BadgeInfo", "Color", "Bits", "Emotes"} \cup ReplyTags :
       m.tags[t] = None

\* C12: from_irc returns Some(view) for a PRIVMSG that has a nick prefix, a
\* channel, trailing text and only the tags id, room-id, tmi-sent-ts, user-id
\* and display-name; for the text "\x01ACTION waves\x01" the view has
\* is_action = true and text "waves".
C12_PlainTagsGiveView ==
  (pc = "projected" /\ OnlyPlainTags(msg)) =>
    /\ view # None
    /\ msg.text = Some(ActionWaves) => (view[1].is_action /\ view[1].text = Waves)


\* The bits tag is present with a non-empty value that is no unsigned integer.
BadBits(m) ==
  /\ m.tags["Bits"] # None
  /\ m.tags["Bits"][1] # <<>>
  /\ parse_u64(m.tags["Bits"][1]) = None

\* C13: from_irc returns None when the bits tag is present with a non-empty
\* value that does not parse as an unsigned integer; in a returned view bits is
\* None only when the tag is absent or empty.
C13_BadBitsGiveNone ==
  pc = "projected" =>
    /\ BadBits(msg) => view = None
    /\ (view # None /\ view[1].bits = None) =>
         (msg.tags["Bits"] = None \/ msg.tags["Bits"] = Some(<<>>))


\* All five reply-parent tags are present.
AllReplyTags(m) == \A t \in ReplyTags : m.tags[t] # None

\* The message has everything that from_irc reads with `?` outside reply_to.
Complete(m) ==
  /\ ~ListedMissing(m)
  /\ m.tags["Badges"] # None
  /\ m.tags["BadgeInfo"] # None

\* C14: reply_to is Some exactly when all five tags reply-parent-msg-id,
\* reply-parent-user-id, reply-parent-user-login, reply-parent-display-name and
\* reply-parent-msg-body are present, and then carries their values; when one
\* of them is missing, reply_to is None and the view is still returned.
C14_ReplyToIffAllFive ==
  pc = "projected" =>
    /\ view # None =>
         /\ view[1].reply_to # None <=> AllReplyTags(msg)
         /\ view[1].reply_to # None =>
              /\ view[1].reply_to[1].message_id = msg.tags["ReplyParentMsgId"][1]
              /\ view[1].reply_to[1].sender.id = msg.tags["ReplyParentUserId"][1]
              /\ view[1].reply_to[1].sender.login = msg.tags["ReplyParentUserLogin"][1]
              /\ view[1].reply_to[1].sender.name = msg.tags["ReplyParentDisplayName"][1]
              /\ view[1].reply_to[1].text = msg.tags["ReplyParentMsgBody"][1]
    /\ (Complete(msg) /\ ~AllReplyTags(msg)) =>
         (view # None /\ view[1].reply_to = None)

\* A view was returned without reply_to for a message that has the parent's
\* message id and three more reply tags but no reply-parent-msg-body.
C14_Witness ==
  /\ pc = "projected"
  /\ view # None
  /\ view[1].reply_to = None
  /\ msg.tags["ReplyParentMsgBody"] = None
  /\ \A t \in ReplyTags \ {"ReplyParentMsgBody"} : msg.tags[t] # None


\* ================================================ claims: parse_tags, the loop
\* C15: parse_tags terminates: a pass through the loop body either breaks or
\* leaves key_start strictly larger and at most len(src), so the body runs at
\* most len(src) times, and a pass inserts at most one tag.
C15_LoopBounded ==
  /\ [](iters <= Len(src) /\ Len(tags) <= iters)
  /\ [][(pc = "loop" /\ iters' # iters) =>
          /\ iters' = iters + 1
          /\ pc' = "exit" \/ (key_start' > key_start /\ key_start' <= Len(src))
          /\ Len(tags') <= Len(tags) + 1]_vars

\* Two passes ran, the first continued at a larger key_start, and the call
\* returned with a tag from each.
C15_Witness ==
  /\ pc = "done"
  /\ iters = 2
  /\ Len(tags) = 2
  /\ tags[2].key_span.start > tags[1].value.end

====
